---- MODULE Spec2Model ----
(***************************************************************************)
(* A model of crocket's order execution code:                              *)
(*   - Bittrex.buy_or_else / Bittrex.sell_or_else (bittrex/bittrex2.py),   *)
(*     the submit -> poll -> cancel retry loops, one exchange call a step; *)
(*   - buy_above_bid, sell_below_ask, get_order_and_update_wallet and      *)
(*     skip_order (manager_helper.py) acting on a BittrexOrder             *)
(*     (bittrex/BittrexOrder.py) and the wallet;                           *)
(*   - the market history loop of run_crocket.py, which merges each page   *)
(*     of trades into a working list and summarises it per interval.       *)
(* Money values are Decimals quantized to 8 fractional digits; the model   *)
(* counts them in units of 1e-8, so quantize() is rounding to an integer.  *)
(***************************************************************************)
EXTENDS Integers, Sequences, FiniteSets, TLC

VARIABLES
    \* ---- one invocation of buy_or_else / sell_or_else ----
    pc,         \* position in the invocation: idle, submit, poll, cancel, done
    side,       \* "BUY" (buy_or_else) or "SELL" (sell_or_else)
    retry,      \* the retry argument
    ii, jj, kk, \* the three loop counters
    response,   \* the local dict response = {'success': .., 'result': ..}
    outcome,    \* none | returned | raised
    raised,     \* the message of the RuntimeError raised, or NoError
    calls,      \* the exchange calls and sleeps made so far, in order
    \* ---- the manager helper's world ----
    order,      \* the BittrexOrder the caller works on
    order_list, \* the caller's active orders (ids; this order is ThisOrder)
    out_queue,  \* the queue of completed orders
    wallet,     \* the wallet: asset -> quantity
    last,       \* the last manager_helper call: its inputs and how it ended
    \* ---- the market history loop of run_crocket.py ----
    tape,             \* the exchange's trades of the market, newest first
    market_history,   \* the page fetched last
    working_list,     \* the trades held, newest first
    held,             \* working_list as it was before the last merge
    index,            \* where the page holds the id of working_list[0]
    current_datetime, \* start of the interval to summarise next
    constant,         \* cycles in a row without a summary
    metrics,          \* the summary made last
    sleep_time,       \* seconds to sleep before the next fetch
    db,               \* the rows inserted so far
    repolls,          \* merges in a row of the page merged before
    branch,           \* the branch the cycle took: emit, stale, wait, gap
    summarised,       \* the arguments of the cycle's call of calculate_metrics
    apc,              \* position in the loop: fetch, merged, gap, insert, crashed;
                      \* of a call of calculate_metrics alone: call, returned,
                      \* formatted, crashed
    aerr              \* the exception that ended the program, or NoException

oeVars == <<pc, side, retry, ii, jj, kk, response, outcome, raised, calls>>
mgrVars == <<order, order_list, out_queue, wallet, last>>
aggVars == <<tape, market_history, working_list, held, index, current_datetime,
             constant, metrics, sleep_time, db, repolls, branch,
                   summarised, apc, aerr>>
vars == <<pc, side, retry, ii, jj, kk, response, outcome, raised, calls,
          order, order_list, out_queue, wallet, last,
          tape, market_history, working_list, held, index, current_datetime,
          constant, metrics, sleep_time, db, repolls, branch,
                   summarised, apc, aerr>>

(***************************************************************************)
(* Bounds of the model.                                                    *)
(***************************************************************************)
MaxRetry == 3
MaxQty == 2
MaxPrice == 3

(***************************************************************************)
(* The exchange's order data, as get_order returns it in 'result'.         *)
(***************************************************************************)
NoClosed == "None"
ClosedStamp == "2017-12-23T05:00:55.42"

LimitType(s) ==
    IF s = "BUY" THEN "LIMIT_BUY" ELSE "LIMIT_SELL"

\* The order data the exchange may report for an order of side s: q asked
\* for, r of it still unfilled, filled at PricePerUnit, a commission charged
\* on what was filled, and a Closed timestamp once the order is closed.
OrderData(s) ==
    UNION { { [Type |-> LimitType(s), Quantity |-> q, QuantityRemaining |-> q - f,
               PricePerUnit |-> MaxPrice, Price |-> f * MaxPrice,
               CommissionPaid |-> IF f > 0 THEN 1 ELSE 0, Closed |-> cl] :
                 f \in 0..q, cl \in {NoClosed, ClosedStamp} } : q \in 1..MaxQty }

\* response['result'] as the wrappers initialise it: the empty dict {}.
EmptyResult ==
    [Type |-> "EMPTY", Quantity |-> 0, QuantityRemaining |-> 0,
     PricePerUnit |-> 0, Price |-> 0, CommissionPaid |-> 0, Closed |-> NoClosed]

(***************************************************************************)
(* buy_or_else / sell_or_else.                                             *)
(***************************************************************************)
NoError == "None"
SubmitError == "Error: Sell order max API retry limit reached."
PollError(s) ==
    IF s = "BUY" THEN "Tradebot: failed to get buy order metadata."
    ELSE "Error: Get sell order metadata max API retry limit reached."
CancelError == "Tradebot: failed to cancel remaining order."

Call(kind, ok, data) ==
    [call |-> kind, ok |-> ok, dur |-> 0, data |-> data]
Sleep(n) ==
    [call |-> "sleep", ok |-> TRUE, dur |-> n, data |-> EmptyResult]

\* What a successful submission adds to the calls: the submission and the
\* sleep(3) before the first poll.
SubmitSucceededWithoutDelay ==
    <<Call("submit", TRUE, EmptyResult)>>
SubmitSucceeded ==
    <<Call("submit", TRUE, EmptyResult), Sleep(3)>>

\* response['result'] = order_response.get('result')
ResultDropped(data) ==
    EmptyResult
ResultOf(data) ==
    data

\* What the last failed submission of the budget does: buy_or_else only logs
\* and falls out of the loop to `return response`; sell_or_else raises.
SubmitExhaustedAlwaysRaises(s) ==
    "raised"
OnSubmitExhausted(s) ==
    IF s = "BUY" THEN "returned" ELSE "raised"

\* What the last failed poll of the budget does: both wrappers raise.
PollExhaustedReturns(s) ==
    "returned"
OnPollExhausted(s) ==
    "raised"

\* Whether a successful poll leads into the cancel loop.
NeedsCancelAnySide(s, data) ==
    data.QuantityRemaining >= 0
NeedsCancel(s, data) ==
    s = "BUY" /\ data.QuantityRemaining > 0

\* What the last failed cancel of the budget does.
CancelExhaustedReturns ==
    "returned"
OnCancelExhausted ==
    "raised"

InitOrElse ==
    /\ pc = "idle"
    /\ side = "BUY"
    /\ retry = 1
    /\ ii = 0
    /\ jj = 0
    /\ kk = 0
    /\ response = [success |-> FALSE, result |-> EmptyResult]
    /\ outcome = "none"
    /\ raised = NoError
    /\ calls = <<>>

\* The caller invokes s_or_else(market, quantity, rate, retry=r).
or_else_invoke(s, r) ==
    /\ pc \in {"idle", "done"}
    /\ side' = s
    /\ retry' = r
    /\ response' = [success |-> FALSE, result |-> EmptyResult]
    /\ ii' = 0
    /\ jj' = 0
    /\ kk' = 0
    /\ pc' = "submit"
    /\ outcome' = "none"
    /\ raised' = NoError
    /\ calls' = <<>>

\* One pass of the outer loop: buy_limit / sell_limit answers ok.
submit_step(ok) ==
    /\ pc = "submit"
    /\ ii < retry
    /\ UNCHANGED <<side, retry, jj, kk, response>>
    /\ IF ok
       THEN /\ calls' = calls \o SubmitSucceeded
            /\ pc' = "poll"
            /\ UNCHANGED <<ii, outcome, raised>>
       ELSE IF ii = retry - 1
            THEN IF OnSubmitExhausted(side) = "raised"
                 THEN /\ calls' = Append(calls, Call("submit", FALSE, EmptyResult))
                      /\ pc' = "done"
                      /\ outcome' = "raised"
                      /\ raised' = SubmitError
                      /\ UNCHANGED ii
                 ELSE /\ calls' = calls \o <<Call("submit", FALSE, EmptyResult), Sleep(1)>>
                      /\ pc' = "done"
                      /\ outcome' = "returned"
                      /\ ii' = ii + 1
                      /\ UNCHANGED raised
            ELSE /\ calls' = calls \o <<Call("submit", FALSE, EmptyResult), Sleep(1)>>
                 /\ ii' = ii + 1
                 /\ UNCHANGED <<pc, outcome, raised>>

\* One pass of the poll loop: get_order answers ok, with order data.
poll_step(ok, data) ==
    /\ pc = "poll"
    /\ jj < retry
    /\ UNCHANGED <<side, retry, ii, kk>>
    /\ IF ok
       THEN IF NeedsCancel(side, data)
            THEN /\ response' = [success |-> FALSE, result |-> ResultOf(data)]
                 /\ calls' = Append(calls, Call("poll", TRUE, data))
                 /\ pc' = "cancel"
                 /\ UNCHANGED <<jj, outcome, raised>>
            ELSE /\ response' = [success |-> TRUE, result |-> ResultOf(data)]
                 /\ calls' = Append(calls, Call("poll", TRUE, data))
                 /\ pc' = "done"
                 /\ outcome' = "returned"
                 /\ UNCHANGED <<jj, raised>>
       ELSE IF jj = retry - 1
            THEN IF OnPollExhausted(side) = "raised"
                 THEN /\ calls' = Append(calls, Call("poll", FALSE, EmptyResult))
                      /\ pc' = "done"
                      /\ outcome' = "raised"
                      /\ raised' = PollError(side)
                      /\ UNCHANGED <<jj, response>>
                 ELSE /\ calls' = calls \o <<Call("poll", FALSE, EmptyResult), Sleep(1)>>
                      /\ pc' = "done"
                      /\ outcome' = "returned"
                      /\ jj' = jj + 1
                      /\ UNCHANGED <<raised, response>>
            ELSE /\ calls' = calls \o <<Call("poll", FALSE, EmptyResult), Sleep(1)>>
                 /\ jj' = jj + 1
                 /\ UNCHANGED <<pc, outcome, raised, response>>

\* One pass of buy_or_else's cancel loop: cancel answers ok.
cancel_step(ok) ==
    /\ pc = "cancel"
    /\ kk < retry
    /\ UNCHANGED <<side, retry, ii, jj>>
    /\ IF ok
       THEN /\ response' = [response EXCEPT !.success = TRUE]
            /\ calls' = Append(calls, Call("cancel", TRUE, EmptyResult))
            /\ pc' = "done"
            /\ outcome' = "returned"
            /\ UNCHANGED <<kk, raised>>
       ELSE IF kk = retry - 1
            THEN IF OnCancelExhausted = "raised"
                 THEN /\ calls' = Append(calls, Call("cancel", FALSE, EmptyResult))
                      /\ pc' = "done"
                      /\ outcome' = "raised"
                      /\ raised' = CancelError
                      /\ UNCHANGED <<kk, response>>
                 ELSE /\ calls' = calls \o <<Call("cancel", FALSE, EmptyResult), Sleep(1)>>
                      /\ pc' = "done"
                      /\ outcome' = "returned"
                      /\ kk' = kk + 1
                      /\ UNCHANGED <<raised, response>>
            ELSE /\ calls' = calls \o <<Call("cancel", FALSE, EmptyResult), Sleep(1)>>
                 /\ kk' = kk + 1
                 /\ UNCHANGED <<pc, outcome, raised, response>>

\* The wrappers take neither an order nor the wallet.
Invoke ==
    /\ \E s \in {"BUY", "SELL"}, r \in 1..MaxRetry : or_else_invoke(s, r)
    /\ UNCHANGED <<mgrVars, aggVars>>
Submit ==
    /\ \E ok \in BOOLEAN : submit_step(ok)
    /\ UNCHANGED <<mgrVars, aggVars>>
Poll ==
    /\ \/ \E data \in OrderData(side) : poll_step(TRUE, data)
       \/ poll_step(FALSE, EmptyResult)
    /\ UNCHANGED <<mgrVars, aggVars>>
Cancel ==
    /\ \E ok \in BOOLEAN : cancel_step(ok)
    /\ UNCHANGED <<mgrVars, aggVars>>

NextOrElse ==
    \/ Invoke
    \/ Submit
    \/ Poll
    \/ Cancel

(***************************************************************************)
(* BittrexOrder.                                                           *)
(***************************************************************************)
Market == "BTC-RDD"
NoUuid == "None"
Uuid == "8f178b37"
ThisOrder == "order"
OtherOrder == "other order"

\* BittrexOrder.create(order): the attributes __init__ sets, and no other.
BittrexOrder(type, target_quantity, base_quantity) ==
    [market |-> Market, type |-> type, target_price |-> 0,
     target_quantity |-> target_quantity, base_quantity |-> base_quantity,
     current_quantity |-> 0, status |-> "UNEXECUTED", uuid |-> NoUuid,
     open_time |-> "None", closed_time |-> "None", actual_price |-> 0,
     cost |-> 0]

\* getattr(o, a) succeeds; a missing attribute raises AttributeError.
HasAttr(o, a) ==
    a \in DOMAIN o

\* closed_time: the converted Closed stamp, or now() when Closed is None.
ClosedTime(data) ==
    IF data.Closed = NoClosed THEN "now" ELSE data.Closed

\* cost as add_completed_order computes it from the order data.
CompletedCost(o, data) ==
    IF data.Type = "LIMIT_BUY" THEN data.Price + data.CommissionPaid
    ELSE IF data.Type = "LIMIT_SELL" THEN data.Price - data.CommissionPaid
    ELSE o.cost

\* current_quantity as add_completed_order computes it: only a LIMIT_BUY
\* sets it.
CompletedQuantity(o, data) ==
    IF data.Type = "LIMIT_BUY" THEN data.Quantity - data.QuantityRemaining
    ELSE o.current_quantity

\* order.add_completed_order(data) with data a dict.
add_completed_order(o, data) ==
    [o EXCEPT !.status = "COMPLETED",
              !.actual_price = data.PricePerUnit,
              !.closed_time = ClosedTime(data),
              !.cost = CompletedCost(o, data),
              !.current_quantity = CompletedQuantity(o, data)]

\* order.add_completed_order(None): the status is set, then None.get raises.
add_completed_order_none(o) ==
    [o EXCEPT !.status = "COMPLETED"]

(***************************************************************************)
(* The wallet (utilities; not in the repository's files): a balance per    *)
(* asset, a signed decimal updated additively.                             *)
(***************************************************************************)
get_quantity(w, asset) ==
    w[asset]

update_wallet(w, market, quantity, total) ==
    [w EXCEPT ![market] = @ + quantity, !["BTC"] = @ - total]

(***************************************************************************)
(* manager_helper.                                                         *)
(***************************************************************************)
Percents == {0, 5, 50, 75, 100, 150}

\* Decimal.quantize under the default context: n/d rounded half to even.
RoundHalfEven(n, d) ==
    LET q == n \div d
        r == n % d
    IN  IF 2 * r < d THEN q
        ELSE IF 2 * r > d THEN q + 1
        ELSE IF q % 2 = 0 THEN q ELSE q + 1

\* (bid + (ask - bid) * percent/100).quantize(DIGITS), then the clamp.
BuyPriceBufferSubtracted(bid, ask, percent) ==
    bid - RoundHalfEven((ask - bid) * percent, 100)
BuyPrice(bid, ask, percent) ==
    LET buy_price == bid + RoundHalfEven((ask - bid) * percent, 100)
    IN  IF buy_price > ask THEN bid ELSE buy_price

\* (ask - (ask - bid) * percent/100).quantize(DIGITS), then the clamp.
SellPriceBufferAdded(bid, ask, percent) ==
    ask + RoundHalfEven((ask - bid) * percent, 100)
SellPrice(bid, ask, percent) ==
    LET sell_price == ask - RoundHalfEven((ask - bid) * percent, 100)
    IN  IF sell_price < bid THEN ask ELSE sell_price

NoTicker == [ok |-> FALSE, Bid |-> 0, Ask |-> 0]
Tickers ==
    {NoTicker} \cup { [ok |-> TRUE, Bid |-> b, Ask |-> a] : b, a \in 1..MaxPrice }

Idle ==
    [op |-> "none", ret |-> "None", exc |-> "None", ticker |-> NoTicker,
     percent |-> 0, submitted |-> FALSE, quantity |-> 0, rate |-> 0,
     fetched |-> FALSE, data |-> EmptyResult, exchange |-> <<>>,
     pre |-> BittrexOrder("BUY", 0, 0), pre_wallet |-> [a \in {"BTC", Market} |-> 0]]

\* What is recorded of a call when it starts.
Started(op) ==
    [Idle EXCEPT !.op = op, !.pre = order, !.pre_wallet = wallet]

\* The balance tests that skip an order before it is submitted.
NotEnoughToBuyZeroTest(w, o) ==
    get_quantity(w, "BTC") = 0
NotEnoughToBuy(w, o) ==
    get_quantity(w, "BTC") < o.base_quantity

NothingToSell(w, market) ==
    get_quantity(w, market) = 0

\* update_uuid and update_status(EXECUTED) after a successful submission.
SubmittedWithoutUuid(o, uuid) ==
    [o EXCEPT !.status = "EXECUTED"]
SubmittedAsCompleted(o, uuid) ==
    [o EXCEPT !.uuid = uuid, !.status = "COMPLETED"]
Submitted(o, uuid) ==
    [o EXCEPT !.uuid = uuid, !.status = "EXECUTED"]

\* The wallet after buy_above_bid placed its order: the submission leaves
\* it alone.
WalletDebitedAtSubmit(w, o) ==
    update_wallet(w, o.market, 0, o.base_quantity)
WalletAfterBuySubmit(w, o) ==
    w

\* order.update_target_price(price)
update_target_price_and_status(o, price) ==
    [o EXCEPT !.target_price = price, !.status = "EXECUTED"]
update_target_price(o, price) ==
    [o EXCEPT !.target_price = price]

buy_above_bid(ticker, percent, buy_ok) ==
    LET rec == [Started("buy_above_bid") EXCEPT !.ticker = ticker, !.percent = percent,
                                                !.exchange = <<"get_ticker">>]
        priced == update_target_price(order, BuyPrice(ticker.Bid, ticker.Ask, percent))
        sent == [rec EXCEPT !.submitted = TRUE,
                            !.quantity = priced.target_quantity,
                            !.rate = priced.target_price,
                            !.exchange = <<"get_ticker", "buy_limit">>]
    IN  /\ UNCHANGED <<order_list, out_queue>>
        /\ IF ~ticker.ok
           THEN /\ last' = [rec EXCEPT !.ret = "False"]
                /\ UNCHANGED <<order, wallet>>
           ELSE IF NotEnoughToBuy(wallet, priced)
           THEN /\ order' = priced
                /\ last' = [rec EXCEPT !.ret = "False"]
                /\ UNCHANGED wallet
           ELSE IF buy_ok
           THEN /\ order' = Submitted(priced, Uuid)
                /\ wallet' = WalletAfterBuySubmit(wallet, priced)
                /\ last' = [sent EXCEPT !.ret = "True"]
           ELSE /\ order' = priced
                /\ last' = [sent EXCEPT !.ret = "False"]
                /\ UNCHANGED wallet

sell_below_ask(ticker, percent, sell_ok) ==
    LET rec == [Started("sell_below_ask") EXCEPT !.ticker = ticker, !.percent = percent,
                                                 !.exchange = <<"get_ticker">>]
        priced == update_target_price(order, SellPrice(ticker.Bid, ticker.Ask, percent))
        sent == [rec EXCEPT !.submitted = TRUE,
                            !.quantity = get_quantity(wallet, Market),
                            !.rate = priced.target_price,
                            !.exchange = <<"get_ticker", "sell_limit">>]
    IN  /\ UNCHANGED <<order_list, out_queue, wallet>>
        /\ IF ~ticker.ok
           THEN /\ last' = [rec EXCEPT !.ret = "False"]
                /\ UNCHANGED order
           ELSE IF NothingToSell(wallet, Market)
           THEN /\ order' = priced
                /\ last' = [rec EXCEPT !.ret = "False"]
           ELSE IF sell_ok
           THEN /\ order' = Submitted(priced, Uuid)
                /\ last' = [sent EXCEPT !.ret = "True"]
           ELSE /\ order' = priced
                /\ last' = [sent EXCEPT !.ret = "False"]

\* get_order answers fetched (with data), or fails with result None.
get_order_and_update_wallet(fetched, data) ==
    LET rec == [Started("get_order_and_update_wallet") EXCEPT !.fetched = fetched, !.data = data,
                                                              !.exchange = <<"get_order">>]
        completed == IF fetched THEN add_completed_order(order, data)
                     ELSE add_completed_order_none(order)
    IN  /\ UNCHANGED <<order_list, out_queue>>
        /\ order' = completed
        /\ IF ~fetched \/ ~HasAttr(completed, "total")
           THEN /\ last' = [rec EXCEPT !.ret = "raised", !.exc = "AttributeError"]
                /\ UNCHANGED wallet
           ELSE /\ last' = rec
                /\ wallet' = IF completed.type = "BUY"
                             THEN update_wallet(wallet, completed.market,
                                                completed.current_quantity, completed.total)
                             ELSE update_wallet(wallet, completed.market,
                                                -1 * completed.current_quantity,
                                                -1 * completed.total)

\* list.remove(x): the list without its first x.
RemoveHead(seq, x) ==
    Tail(seq)
Remove(seq, x) ==
    LET i == CHOOSE k \in 1..Len(seq) :
                 seq[k] = x /\ \A j \in 1..(k - 1) : seq[j] # x
    IN  SubSeq(seq, 1, i - 1) \o SubSeq(seq, i + 1, Len(seq))

skip_order ==
    /\ order' = [order EXCEPT !.status = "SKIPPED"]
    /\ UNCHANGED wallet
    /\ IF \E i \in 1..Len(order_list) : order_list[i] = ThisOrder
       THEN /\ order_list' = Remove(order_list, ThisOrder)
            /\ out_queue' = Append(out_queue, ThisOrder)
            /\ last' = Started("skip_order")
       ELSE /\ UNCHANGED <<order_list, out_queue>>
            /\ last' = [Started("skip_order") EXCEPT !.ret = "raised", !.exc = "ValueError"]

\* The caller works on an order of its active list: it prices and submits
\* an UNEXECUTED order once, skips it when that fails ("Skipping buy order",
\* the helpers log), and reconciles an EXECUTED one.
Active ==
    \E i \in 1..Len(order_list) : order_list[i] = ThisOrder

InitManager ==
    /\ \E type \in {"BUY", "SELL"}, base \in 1..MaxQty :
          order = BittrexOrder(type, MaxQty, base)
    /\ order_list = <<OtherOrder, ThisOrder>>
    /\ out_queue = <<>>
    /\ wallet \in [{"BTC", Market} -> -1..MaxQty]
    /\ last = Idle

BuyAboveBid ==
    /\ Active /\ order.type = "BUY" /\ order.status = "UNEXECUTED"
    /\ last.op = "none"
    /\ \E t \in Tickers, p \in Percents, ok \in BOOLEAN : buy_above_bid(t, p, ok)
    /\ UNCHANGED <<oeVars, aggVars>>
SellBelowAsk ==
    /\ Active /\ order.type = "SELL" /\ order.status = "UNEXECUTED"
    /\ last.op = "none"
    /\ \E t \in Tickers, p \in Percents, ok \in BOOLEAN : sell_below_ask(t, p, ok)
    /\ UNCHANGED <<oeVars, aggVars>>
GetOrderAndUpdateWallet ==
    /\ Active /\ order.status = "EXECUTED"
    /\ \/ \E data \in OrderData(order.type) : get_order_and_update_wallet(TRUE, data)
       \/ get_order_and_update_wallet(FALSE, EmptyResult)
    /\ UNCHANGED <<oeVars, aggVars>>
SkipOrder ==
    /\ Active /\ order.status = "UNEXECUTED" /\ last.ret = "False"
    /\ skip_order
    /\ UNCHANGED <<oeVars, aggVars>>

NextManager ==
    \/ BuyAboveBid
    \/ SellBelowAsk
    \/ GetOrderAndUpdateWallet
    \/ SkipOrder

\* The helpers called on the order whatever its status: none of them tests
\* the status, and update_status is a plain setter.  One ticker and the
\* default percent are enough here, the prices play no part.
WideTicker == [ok |-> TRUE, Bid |-> 1, Ask |-> MaxPrice]
DefaultPercent == 5

BuyAboveBidAnyStatus ==
    /\ order.type = "BUY"
    /\ \E t \in {NoTicker, WideTicker}, ok \in BOOLEAN : buy_above_bid(t, DefaultPercent, ok)
    /\ UNCHANGED <<oeVars, aggVars>>
SellBelowAskAnyStatus ==
    /\ order.type = "SELL"
    /\ \E t \in {NoTicker, WideTicker}, ok \in BOOLEAN : sell_below_ask(t, DefaultPercent, ok)
    /\ UNCHANGED <<oeVars, aggVars>>
GetOrderAnyStatus ==
    /\ \/ \E data \in OrderData(order.type) : get_order_and_update_wallet(TRUE, data)
       \/ get_order_and_update_wallet(FALSE, EmptyResult)
    /\ UNCHANGED <<oeVars, aggVars>>
SkipOrderAnyStatus ==
    /\ skip_order
    /\ UNCHANGED <<oeVars, aggVars>>

NextHelpers ==
    \/ BuyAboveBidAnyStatus
    \/ SellBelowAskAnyStatus
    \/ GetOrderAnyStatus
    \/ SkipOrderAnyStatus

(***************************************************************************)
(* The market history loop (run_crocket.py).  A timestamp is a str in the  *)
(* exchange's entries and a datetime once converted; both are counted in   *)
(* seconds.  Prices are counted in units of 1e-8.                          *)
(***************************************************************************)
MaxTape == 4
PageSize == 3
MaxRepolls == 2

interval == 60

Str(t) == [type |-> "str", at |-> t]
Datetime(t) == [type |-> "datetime", at |-> t]

\* The timestamps of trades: at an interval's start, at its end and past
\* it.
Stamps == {0, interval, interval + 1}

\* An entry of the exchange's market history: Total is the value of the
\* trade in the base currency, Price * Quantity.
Entry(id, at, price, quantity, type) ==
    [Id |-> id, TimeStamp |-> Str(at), Quantity |-> quantity, Price |-> price,
     Total |-> price * quantity, OrderType |-> type]

\* The trade of the tape with this identifier.
Trade(id, at, type) ==
    Entry(id, at, 1 + (id % MaxPrice), 1 + (id % MaxQty), type)

\* The tapes of n trades, newest first: identifiers increase with time and
\* timestamps do not decrease.
RECURSIVE Tapes(_)
Tapes(n) ==
    IF n = 0 THEN {<<>>}
    ELSE UNION { { <<Trade(n, at, type)>> \o t :
                     at \in {a \in Stamps : t = <<>> \/ a >= t[1].TimeStamp.at},
                     type \in {"BUY", "SELL"} } :
                 t \in Tapes(n - 1) }

\* bittrex.get_market_history(market).get('result'): the newest entries of
\* the tape, or None when the query failed.
Page(entries) == [ok |-> TRUE, result |-> entries]
NoPage == [ok |-> FALSE, result |-> <<>>]
Smaller(a, b) == IF a < b THEN a ELSE b
Pages(t) ==
    { Page(SubSeq(t, 1, n)) : n \in 1..Smaller(PageSize, Len(t)) }

\* datetime.strptime(timestamp, time_format) raises TypeError unless
\* timestamp is a str.
strptime_raises(timestamp) ==
    timestamp.type # "str"
convert_bittrex_timestamp_to_datetime(timestamp) ==
    Datetime(timestamp.at)

\* [x.get('Id') for x in entries].index(id), counted from 0; NotFound stands
\* for the ValueError.
NotFound == -1
Ids(entries) ==
    [i \in 1..Len(entries) |-> entries[i].Id]
IndexOf(ids, id) ==
    IF \E i \in 1..Len(ids) : ids[i] = id
    THEN (CHOOSE i \in 1..Len(ids) :
              ids[i] = id /\ \A j \in 1..(i - 1) : ids[j] # id) - 1
    ELSE NotFound

\* working_list = market_history[:index] + working_list
MergedThroughAnchor(page, window, i) ==
    SubSeq(page, 1, i + 1) \o window
MergedWholePage(page, window, i) ==
    page \o window
MergedBehind(page, window, i) ==
    window \o SubSeq(page, 1, i)
Merged(page, window, i) ==
    SubSeq(page, 1, i) \o window

\* working_list = market_history + working_list
GapMerged(page, window) ==
    page \o window

\* The merge of a page into a window, found or not.
merge(page, window) ==
    LET i == IndexOf(Ids(page), window[1].Id)
    IN  IF i # NotFound THEN Merged(page, window, i) ELSE GapMerged(page, window)

\* get_interval_index(entries, target_datetime, interval)
StartIndex(entries, target_datetime) ==
    Cardinality({i \in 1..Len(entries) :
                    entries[i].TimeStamp.at - target_datetime.at > interval})
StopIndexFromStart(entries, target_datetime) ==
    Cardinality({i \in 1..Len(entries) :
                    entries[i].TimeStamp.at >= target_datetime.at})
StopIndex(entries, target_datetime) ==
    Cardinality({i \in 1..Len(entries) :
                    entries[i].TimeStamp.at > target_datetime.at})

\* entries[start:stop] and entries[:start]
Slice(entries, start, stop) ==
    SubSeq(entries, start + 1, stop)
UpTo(entries, start) ==
    SubSeq(entries, 1, start)

NoException == "None"

RECURSIVE Sum(_)
Sum(numbers) ==
    IF numbers = <<>> THEN 0 ELSE Head(numbers) + Sum(Tail(numbers))

\* if data and isinstance(data[0], dict)
SummarisesUnguarded(data) ==
    TRUE
Summarises(data) ==
    data # <<>>

\* v of p, v, o: x.get('Total') of every entry.
VolumesFromQuantity(data) ==
    [i \in 1..Len(data) |-> data[i].Quantity]
Volumes(data) ==
    [i \in 1..Len(data) |-> data[i].Total]

\* The exception calculate_metrics(data, start_datetime) ends with: it first
\* converts start_datetime with strptime, then divides by len(p) and by
\* Decimal(sum(v)).
calculate_metrics_error(data, start_datetime) ==
    IF strptime_raises(start_datetime) THEN "TypeError"
    ELSE IF Summarises(data) /\ (Len(data) = 0 \/ Sum(Volumes(data)) = 0)
    THEN "DivisionError"
    ELSE NoException

\* What calculate_metrics(data, start_datetime) returns when it returns.
calculate_metrics(data, start_datetime) ==
    LET p == [i \in 1..Len(data) |-> data[i].Price]
        v == Volumes(data)
        pv == [i \in 1..Len(data) |-> p[i] * v[i]]
        buys == Len(SelectSeq(data, LAMBDA x : x.OrderType = "BUY"))
    IN  IF Summarises(data)
        THEN [bound |-> TRUE, volume |-> Sum(v), buy_order |-> buys,
              sell_order |-> Len(data) - buys,
              price |-> RoundHalfEven(Sum(p), Len(p)),
              price_volume_weighted |-> RoundHalfEven(Sum(pv), Sum(v)),
              time |-> start_datetime.at]
        ELSE [bound |-> TRUE, volume |-> 0, buy_order |-> 0, sell_order |-> 0,
              price |-> 0, price_volume_weighted |-> 0, time |-> start_datetime.at]

\* The name metrics before its first assignment.
NoMetrics ==
    [bound |-> FALSE, volume |-> 0, buy_order |-> 0, sell_order |-> 0,
     price |-> 0, price_volume_weighted |-> 0, time |-> 0]

\* data.get(key): the value under the key, here as the set of it, or None,
\* here the empty set, for a key the dict does not have.
None == {}
Get(data, key) ==
    IF key \in DOMAIN data THEN {data[key]} ELSE None

\* format_bittrex_entry(data): data.get(key) of six keys.
format_bittrex_entry(data) ==
    <<<<"time", Get(data, "time")>>, <<"price", Get(data, "price")>>,
      <<"wprice", Get(data, "wprice")>>, <<"basevolume", Get(data, "basevolume")>>,
      <<"buyorder", Get(data, "buyorder")>>, <<"sellorder", Get(data, "sellorder")>>>>

\* Set dynamic sleep time based on order volume.
SleepTime(i) ==
    IF i < 30 THEN 60 ELSE 30

\* An exception no handler of the loop catches ends the program.
Uncaught(exception) ==
    /\ apc' = "crashed"
    /\ aerr' = exception

\* The call of calculate_metrics a cycle makes, if it makes one.
NotCalled ==
    [called |-> FALSE, data |-> <<>>, start_datetime |-> Datetime(0)]
Called(data, start_datetime) ==
    [called |-> TRUE, data |-> data, start_datetime |-> start_datetime]

\* The state when the loop is entered: the first page is the working list
\* and its newest timestamp starts the first interval.
InitAggregator ==
    /\ \E n \in 1..MaxTape : tape \in Tapes(n)
    /\ working_list \in { p.result : p \in Pages(tape) }
    /\ held = working_list
    /\ market_history = NoPage
    /\ index = NotFound
    /\ current_datetime = convert_bittrex_timestamp_to_datetime(working_list[1].TimeStamp)
    /\ constant = 0
    /\ metrics = NoMetrics
    /\ sleep_time = 30
    /\ db = <<>>
    /\ repolls = 0
    /\ branch = "none"
    /\ summarised = NotCalled
    /\ apc = "fetch"
    /\ aerr = NoException

\* A trade happens on the market while the program sleeps.
NewTrade ==
    /\ apc = "fetch"
    /\ Len(tape) < MaxTape
    /\ \E at \in Stamps, type \in {"BUY", "SELL"} :
          /\ at >= tape[1].TimeStamp.at
          /\ tape' = <<Trade(Len(tape) + 1, at, type)>> \o tape
    /\ UNCHANGED <<market_history, working_list, held, index, current_datetime,
                   constant, metrics, sleep_time, db, repolls, branch,
                   summarised, apc, aerr>>
    /\ UNCHANGED <<oeVars, mgrVars>>

\* Lines 241-246: fetch a page, find the id of working_list[0] in it and
\* put what precedes it in front of the working list.
fetch_and_merge(page) ==
    /\ market_history' = page
    /\ repolls' = IF page = market_history THEN repolls + 1 ELSE 0
    /\ IF working_list = <<>>
       THEN /\ Uncaught("IndexError")
            /\ UNCHANGED <<working_list, held, index>>
       ELSE IF ~page.ok
       THEN /\ Uncaught("TypeError")
            /\ UNCHANGED <<working_list, held, index>>
       ELSE LET i == IndexOf(Ids(page.result), working_list[1].Id)
            IN  IF i # NotFound
                THEN /\ index' = i
                     /\ held' = working_list
                     /\ working_list' = Merged(page.result, working_list, i)
                     /\ apc' = "merged"
                     /\ UNCHANGED aerr
                ELSE /\ apc' = "gap"
                     /\ UNCHANGED <<working_list, held, index, aerr>>
    /\ branch' = "none"
    /\ summarised' = NotCalled
    /\ UNCHANGED <<tape, current_datetime, constant, metrics, sleep_time, db>>
    /\ UNCHANGED <<oeVars, mgrVars>>

FetchAndMerge ==
    /\ apc = "fetch"
    /\ \E page \in Pages(tape) \cup {NoPage} : fetch_and_merge(page)

\* Lines 248-282: summarise the interval when the newest entry is past it
\* or the loop has waited more than twice, else wait.
EmitOrWait ==
    /\ apc = "merged"
    /\ LET latest_datetime == convert_bittrex_timestamp_to_datetime(working_list[1].TimeStamp)
           start == StartIndex(working_list, current_datetime)
           stop == StopIndex(working_list, current_datetime)
           data == Slice(working_list, start, stop)
           new_metrics == calculate_metrics(data, current_datetime)
           error == calculate_metrics_error(data, current_datetime)
       IN  IF latest_datetime.at - current_datetime.at > interval
           THEN /\ branch' = "emit"
                /\ summarised' = Called(data, current_datetime)
                /\ IF error # NoException
                   THEN /\ Uncaught(error)
                        /\ UNCHANGED <<working_list, current_datetime, constant,
                                       metrics, sleep_time>>
                   ELSE /\ metrics' = new_metrics
                        /\ working_list' = UpTo(working_list, start)
                        /\ current_datetime' = Datetime(current_datetime.at + interval)
                        /\ constant' = 0
                        /\ sleep_time' = SleepTime(index)
                        /\ apc' = "insert"
                        /\ UNCHANGED aerr
           ELSE IF constant > 2
           THEN /\ branch' = "stale"
                /\ summarised' = Called(data, current_datetime)
                /\ IF error # NoException
                   THEN /\ Uncaught(error)
                        /\ UNCHANGED <<working_list, current_datetime, constant,
                                       metrics, sleep_time>>
                   ELSE IF ~metrics.bound
                   THEN /\ Uncaught("NameError")
                        /\ UNCHANGED <<working_list, current_datetime, constant,
                                       metrics, sleep_time>>
                   ELSE /\ metrics' = [metrics EXCEPT !.volume = new_metrics.volume,
                                                      !.buy_order = new_metrics.buy_order,
                                                      !.sell_order = new_metrics.sell_order,
                                                      !.time = new_metrics.time]
                        /\ working_list' = UpTo(working_list, start)
                        /\ current_datetime' = Datetime(current_datetime.at + interval)
                        /\ sleep_time' = SleepTime(index)
                        /\ apc' = "insert"
                        /\ UNCHANGED <<constant, aerr>>
           ELSE /\ branch' = "wait"
                /\ summarised' = NotCalled
                /\ constant' = constant + 1
                /\ sleep_time' = SleepTime(index)
                /\ apc' = "insert"
                /\ UNCHANGED <<working_list, current_datetime, metrics, aerr>>
    /\ UNCHANGED <<tape, market_history, held, index, db, repolls>>
    /\ UNCHANGED <<oeVars, mgrVars>>

\* Lines 284-294, the handler of the ValueError: the whole page goes in
\* front of the working list, which is summarised whole.
HandleGap ==
    /\ apc = "gap"
    /\ branch' = "gap"
    /\ held' = working_list
    /\ working_list' = GapMerged(market_history.result, working_list)
    /\ summarised' = Called(working_list', current_datetime)
    /\ IF calculate_metrics_error(working_list', current_datetime) # NoException
       THEN /\ Uncaught(calculate_metrics_error(working_list', current_datetime))
            /\ UNCHANGED <<current_datetime, metrics, sleep_time>>
       ELSE /\ metrics' = calculate_metrics(working_list', current_datetime)
            /\ current_datetime' = Datetime(current_datetime.at + interval)
            /\ sleep_time' = 30
            /\ apc' = "insert"
            /\ UNCHANGED aerr
    /\ UNCHANGED <<tape, market_history, index, constant, db, repolls>>
    /\ UNCHANGED <<oeVars, mgrVars>>

\* Lines 296-299: format the summary, insert it, sleep.
InsertAndSleep ==
    /\ apc = "insert"
    /\ IF ~metrics.bound
       THEN /\ Uncaught("NameError")
            /\ UNCHANGED db
       ELSE /\ db' = Append(db, format_bittrex_entry(metrics))
            /\ apc' = "fetch"
            /\ UNCHANGED aerr
    /\ UNCHANGED <<tape, market_history, working_list, held, index, current_datetime,
                   constant, metrics, sleep_time, repolls, branch,
                   summarised>>
    /\ UNCHANGED <<oeVars, mgrVars>>

NextAggregator ==
    \/ NewTrade
    \/ FetchAndMerge
    \/ EmitOrWait
    \/ HandleGap
    \/ InsertAndSleep

\* The merge alone, poll after poll: a page of the tape is merged into a
\* window that holds a run of it.
MergeInputs ==
    /\ \E n \in 1..MaxTape : tape \in Tapes(n)
    /\ \E i \in 1..Len(tape), j \in 1..Len(tape) :
          i <= j /\ working_list = SubSeq(tape, i, j)
    /\ held = working_list
    /\ market_history = NoPage
    /\ index = NotFound
    /\ current_datetime = convert_bittrex_timestamp_to_datetime(working_list[1].TimeStamp)
    /\ constant = 0
    /\ metrics = NoMetrics
    /\ sleep_time = 30
    /\ db = <<>>
    /\ repolls = 0
    /\ branch = "none"
    /\ summarised = NotCalled
    /\ apc = "fetch"
    /\ aerr = NoException

MergePage(page) ==
    /\ market_history' = page
    /\ held' = working_list
    /\ index' = IndexOf(Ids(page.result), working_list[1].Id)
    /\ working_list' = merge(page.result, working_list)
    /\ UNCHANGED <<tape, current_datetime, constant, metrics, sleep_time, db, branch,
                   summarised, apc, aerr>>
    /\ UNCHANGED <<oeVars, mgrVars>>

\* A page that differs from the one merged last.
MergeFetched ==
    \E page \in Pages(tape) \ {market_history} :
        /\ repolls' = 0
        /\ MergePage(page)

\* The exchange answers with the page it gave last.
MergeAgain ==
    /\ market_history \in Pages(tape)
    /\ repolls < MaxRepolls
    /\ repolls' = repolls + 1
    /\ MergePage(market_history)

NextMerge ==
    \/ NewTrade
    \/ MergeFetched
    \/ MergeAgain

\* The loop's world while the order code runs.
AggregatorUntouched ==
    /\ tape = <<Trade(1, 0, "BUY")>>
    /\ working_list = tape
    /\ held = tape
    /\ market_history = NoPage
    /\ index = NotFound
    /\ current_datetime = Datetime(0)
    /\ constant = 0
    /\ metrics = NoMetrics
    /\ sleep_time = 30
    /\ db = <<>>
    /\ repolls = 0
    /\ branch = "none"
    /\ summarised = NotCalled
    /\ apc = "fetch"
    /\ aerr = NoException

(***************************************************************************)
(* Specifications.                                                         *)
(***************************************************************************)
\* The manager helper's world while only the wrappers run.
ManagerUntouched ==
    /\ order = BittrexOrder("BUY", MaxQty, 1)
    /\ order_list = <<OtherOrder, ThisOrder>>
    /\ out_queue = <<>>
    /\ wallet = [a \in {"BTC", Market} |-> 0]
    /\ last = Idle

\* Invocations of buy_or_else / sell_or_else.
InitWrappers ==
    InitOrElse /\ ManagerUntouched /\ AggregatorUntouched

SpecOrElse ==
    InitWrappers /\ [][NextOrElse]_vars

\* Calls of the manager helpers on one order.
Init ==
    InitOrElse /\ InitManager /\ AggregatorUntouched

SpecManager ==
    Init /\ [][NextManager]_vars

\* Calls of the manager helpers in any order.
SpecHelpers ==
    Init /\ [][NextHelpers]_vars

\* The market history loop from its entry.
InitLoop ==
    InitOrElse /\ ManagerUntouched /\ InitAggregator

SpecAggregator ==
    InitLoop /\ [][NextAggregator]_vars

\* The loop taken up at the top of a cycle: the name metrics is unbound, as
\* before the first cycle, or bound to the summary of an earlier cycle.
EarlierMetrics ==
    [calculate_metrics(<<Trade(1, 0, "BUY")>>, Str(0)) EXCEPT !.time = 0 - interval]
CycleInputs ==
    /\ \E n \in 1..MaxTape : tape \in Tapes(n)
    /\ working_list \in { p.result : p \in Pages(tape) }
    /\ held = working_list
    /\ market_history = NoPage
    /\ index = NotFound
    /\ current_datetime = convert_bittrex_timestamp_to_datetime(working_list[1].TimeStamp)
    /\ constant = 0
    /\ metrics \in {NoMetrics, EarlierMetrics}
    /\ sleep_time = 30
    /\ db = <<>>
    /\ repolls = 0
    /\ branch = "none"
    /\ summarised = NotCalled
    /\ apc = "fetch"
    /\ aerr = NoException

InitCycle ==
    InitOrElse /\ ManagerUntouched /\ CycleInputs

SpecCycle ==
    InitCycle /\ [][NextAggregator]_vars

\* A dead market: no trade happens after the first fetch, and every poll
\* returns the page the loop started from.
FullPage(t) ==
    Page(SubSeq(t, 1, Smaller(PageSize, Len(t))))
DeadMarketInputs ==
    /\ \E n \in 1..MaxTape : tape \in Tapes(n)
    /\ working_list = FullPage(tape).result
    /\ held = working_list
    /\ market_history = NoPage
    /\ index = NotFound
    /\ current_datetime = convert_bittrex_timestamp_to_datetime(working_list[1].TimeStamp)
    /\ constant = 0
    /\ metrics = NoMetrics
    /\ sleep_time = 30
    /\ db = <<>>
    /\ repolls = 0
    /\ branch = "none"
    /\ summarised = NotCalled
    /\ apc = "fetch"
    /\ aerr = NoException

FetchUnchanged ==
    /\ apc = "fetch"
    /\ fetch_and_merge(FullPage(tape))

NextDeadMarket ==
    \/ FetchUnchanged
    \/ EmitOrWait
    \/ InsertAndSleep

InitDeadMarket ==
    InitOrElse /\ ManagerUntouched /\ DeadMarketInputs

\* The loop is one thread that takes its next step whenever it has one.
SpecDeadMarket ==
    InitDeadMarket /\ [][NextDeadMarket]_vars /\ WF_vars(NextDeadMarket)

\* calculate_metrics alone: it is called once with a list of entries and a
\* start, a timestamp string or, as in the loop, a datetime.
MaxEntries == 2
RECURSIVE EntryLists(_)
EntryLists(n) ==
    IF n = 0 THEN {<<>>}
    ELSE EntryLists(n - 1) \cup
         { Append(l, Entry(n, 0, price, quantity, type)) :
             l \in { k \in EntryLists(n - 1) : Len(k) = n - 1 },
             price \in 1..MaxPrice, quantity \in 1..MaxQty,
             type \in {"BUY", "SELL"} }

\* Trades at prices 100.00, 102.00 and 98.00, in units of the last digit
\* kept, of quantities 1, 2 and 1.
ExampleEntries ==
    <<Entry(1, 0, 10000, 1, "BUY"), Entry(2, 0, 10200, 2, "SELL"),
      Entry(3, 0, 9800, 1, "BUY")>>

MetricsInputs ==
    /\ tape = <<Trade(1, 0, "BUY")>>
    /\ working_list = tape
    /\ held = tape
    /\ market_history = NoPage
    /\ index = NotFound
    /\ current_datetime = Datetime(0)
    /\ constant = 0
    /\ metrics = NoMetrics
    /\ sleep_time = 30
    /\ db = <<>>
    /\ repolls = 0
    /\ branch = "none"
    /\ \E data \in EntryLists(MaxEntries) \cup {ExampleEntries},
          start_datetime \in {Str(0), Datetime(0)} :
          summarised = [called |-> FALSE, data |-> data,
                        start_datetime |-> start_datetime]
    /\ apc = "call"
    /\ aerr = NoException

CalculateMetrics ==
    /\ apc = "call"
    /\ summarised' = [summarised EXCEPT !.called = TRUE]
    /\ LET error == calculate_metrics_error(summarised.data, summarised.start_datetime)
       IN  IF error # NoException
           THEN /\ Uncaught(error)
                /\ UNCHANGED metrics
           ELSE /\ metrics' = calculate_metrics(summarised.data,
                                                summarised.start_datetime)
                /\ apc' = "returned"
                /\ UNCHANGED aerr
    /\ UNCHANGED <<tape, market_history, working_list, held, index, current_datetime,
                   constant, sleep_time, db, repolls, branch>>
    /\ UNCHANGED <<oeVars, mgrVars>>

\* Lines 296-297 on what calculate_metrics returned: the summary is
\* formatted and the row inserted.
FormatBittrexEntry ==
    /\ apc = "returned"
    /\ db' = Append(db, format_bittrex_entry(metrics))
    /\ apc' = "formatted"
    /\ UNCHANGED <<tape, market_history, working_list, held, index, current_datetime,
                   constant, metrics, sleep_time, repolls, branch, summarised, aerr>>
    /\ UNCHANGED <<oeVars, mgrVars>>

NextMetrics ==
    \/ CalculateMetrics
    \/ FormatBittrexEntry

InitMetrics ==
    InitOrElse /\ ManagerUntouched /\ MetricsInputs

SpecMetrics ==
    InitMetrics /\ [][NextMetrics]_vars

\* The merge applied to pages of a growing tape.
InitMerge ==
    InitOrElse /\ ManagerUntouched /\ MergeInputs

SpecMerge ==
    InitMerge /\ [][NextMerge]_vars

\* One thread of control drives the exchange over the same wallet: a run
\* goes through the wrappers (their log lines name the caller, "Tradebot")
\* or through the manager helpers ("Manager"), which call buy_limit and
\* sell_limit themselves.
Next ==
    \/ last.op = "none" /\ NextOrElse
    \/ pc = "idle" /\ NextManager

Spec ==
    Init /\ [][Next]_vars

(***************************************************************************)
(* Properties.                                                             *)
(***************************************************************************)
\* The exchange calls of one kind made so far in the invocation.
Count(kind) ==
    Len(SelectSeq(calls, LAMBDA c : c.call = kind))
Oks(kind) ==
    Len(SelectSeq(calls, LAMBDA c : c.call = kind /\ c.ok))
Fails(kind) ==
    Len(SelectSeq(calls, LAMBDA c : c.call = kind /\ ~c.ok))
\* A status poll succeeded and reported this much remaining.
ConfirmedRemaining(pred(_)) ==
    \E i \in 1..Len(calls) :
        calls[i].call = "poll" /\ calls[i].ok /\ pred(calls[i].data.QuantityRemaining)
Positive(n) ==
    n > 0
Zero(n) ==
    n = 0
\* The ticker of the last pricing call was fetched and is valid for the
\* pricing claims: bid <= ask, with a buffer percent between 0 and 100.
ValidPricing ==
    /\ last.ticker.ok
    /\ last.ticker.Bid <= last.ticker.Ask
    /\ last.percent >= 0 /\ last.percent <= 100

\* C1: for every ticker with bid <= ask and every buffer percent between 0
\* and 100, the target price buy_above_bid sets on the order lies in
\* [bid, ask].
C1_BuyTargetWithinSpread ==
    (last.op = "buy_above_bid" /\ ValidPricing)
        => /\ order.target_price >= last.ticker.Bid
           /\ order.target_price <= last.ticker.Ask

\* buy_above_bid priced an order strictly inside a spread.
C1_Witness ==
    /\ last.op = "buy_above_bid" /\ ValidPricing
    /\ last.ticker.Bid < order.target_price
    /\ order.target_price < last.ticker.Ask

\* C2: for every ticker with bid <= ask and every buffer percent between 0
\* and 100, the target price sell_below_ask sets on the order lies in
\* [bid, ask].
C2_SellTargetWithinSpread ==
    (last.op = "sell_below_ask" /\ ValidPricing)
        => /\ order.target_price >= last.ticker.Bid
           /\ order.target_price <= last.ticker.Ask

\* sell_below_ask priced an order strictly inside a spread.
C2_Witness ==
    /\ last.op = "sell_below_ask" /\ ValidPricing
    /\ last.ticker.Bid < order.target_price
    /\ order.target_price < last.ticker.Ask

\* C3: in buy_or_else, once all `retry` submissions have failed, the
\* invocation is over with exactly `retry` submissions, no status poll and no
\* cancel, and it returned (did not raise) a response with success false; the
\* order is still UNEXECUTED.
C3_BuySubmitExhaustedAborts ==
    (side = "BUY" /\ Fails("submit") = retry)
        => /\ pc = "done"
           /\ Count("submit") = retry
           /\ Count("poll") = 0
           /\ Count("cancel") = 0
           /\ outcome = "returned"
           /\ raised = NoError
           /\ response.success = FALSE
           /\ order.status = "UNEXECUTED"

\* buy_or_else went through a budget of three failed submissions.
C3_Witness ==
    /\ side = "BUY" /\ retry = 3 /\ Fails("submit") = retry
    /\ outcome = "returned"

\* C4: in sell_or_else, once all `retry` submissions have failed, the
\* outcome is an abort: a response with success false returned to the caller,
\* not the error raised when the polls are exhausted.
C4_SellSubmitExhaustedAborts ==
    (side = "SELL" /\ Fails("submit") = retry)
        => /\ pc = "done"
           /\ outcome = "returned"
           /\ raised = NoError
           /\ response.success = FALSE

\* C5: in both wrappers the order status is polled at most `retry` times,
\* only after a successful submission; once all `retry` polls have failed the
\* invocation is over with an error raised, and an invocation that submitted
\* and returned has seen a poll succeed.
C5_PollExhaustedIsFatal ==
    /\ Count("poll") <= retry
    /\ Count("poll") > 0 => Oks("submit") = 1
    /\ Fails("poll") = retry
          => pc = "done" /\ outcome = "raised" /\ raised = PollError(side)
    /\ (outcome = "returned" /\ Oks("submit") = 1) => Oks("poll") = 1

\* A sell was submitted and every poll of a budget of more than one failed.
C5_Witness ==
    /\ side = "SELL" /\ retry > 1
    /\ Oks("submit") = 1 /\ Fails("poll") = retry
    /\ outcome = "raised"

\* C6: a cancel call is made only by buy_or_else and only after a
\* successful poll that reported a remaining quantity > 0; a buy confirmed
\* with nothing remaining, and sell_or_else, make no cancel call.
C6_CancelOnlyForRemainder ==
    /\ \A i \in 1..Len(calls) :
          calls[i].call = "cancel"
             => /\ side = "BUY"
                /\ \E j \in 1..(i - 1) :
                      /\ calls[j].call = "poll" /\ calls[j].ok
                      /\ calls[j].data.QuantityRemaining > 0
    /\ ConfirmedRemaining(Zero) => Count("cancel") = 0
    /\ side = "SELL" => Count("cancel") = 0

\* buy_or_else made a cancel call after a poll reported a remainder.
C6_Witness ==
    /\ side = "BUY" /\ Count("cancel") > 0 /\ ConfirmedRemaining(Positive)

\* C7: when a buy is confirmed with a remaining quantity > 0, buy_or_else
\* runs one cancel sequence: it has made at least one cancel call when it
\* ends and never more than `retry`, no submission or poll follows a cancel,
\* a successful cancel is the last call, and once all `retry` cancels have
\* failed the invocation is over with an error raised.
C7_OneCancelSequence ==
    (side = "BUY" /\ ConfirmedRemaining(Positive))
        => /\ Count("cancel") <= retry
           /\ pc = "done" => Count("cancel") >= 1
           /\ \A i \in 1..Len(calls) : \A j \in (i + 1)..Len(calls) :
                 calls[i].call = "cancel" => calls[j].call \in {"cancel", "sleep"}
           /\ \A i \in 1..Len(calls) :
                 (calls[i].call = "cancel" /\ calls[i].ok)
                    => i = Len(calls) /\ pc = "done" /\ outcome = "returned"
           /\ Fails("cancel") = retry
                 => pc = "done" /\ outcome = "raised" /\ raised = CancelError
           /\ (pc = "done" /\ outcome = "returned") => Oks("cancel") = 1

\* A cancel succeeded after an earlier cancel had failed.
C7_Witness ==
    /\ side = "BUY" /\ ConfirmedRemaining(Positive)
    /\ Fails("cancel") >= 1 /\ Oks("cancel") = 1

\* C8: after get_order_and_update_wallet reconciled a buy order, the wallet
\* holds the filled quantity (Quantity - QuantityRemaining) more of the asset
\* and the order's cost less of the quote asset.
C8_BuyReconcileUpdatesWallet ==
    (last.op = "get_order_and_update_wallet" /\ last.fetched /\ order.type = "BUY")
        => /\ wallet[Market] = last.pre_wallet[Market]
                                 + (last.data.Quantity - last.data.QuantityRemaining)
           /\ wallet["BTC"] = last.pre_wallet["BTC"] - order.cost

\* C9: after get_order_and_update_wallet reconciled a sell order, the wallet
\* holds the filled quantity less of the asset and the proceeds more of the
\* quote asset (the negated deltas).
C9_SellReconcileUpdatesWallet ==
    (last.op = "get_order_and_update_wallet" /\ last.fetched /\ order.type = "SELL")
        => /\ wallet[Market] = last.pre_wallet[Market]
                                 - (last.data.Quantity - last.data.QuantityRemaining)
           /\ wallet["BTC"] = last.pre_wallet["BTC"] + order.cost

\* C10: no step of buy_above_bid, sell_below_ask, buy_or_else, sell_or_else
\* or skip_order changes a wallet balance: a step that changes the wallet is
\* a step of get_order_and_update_wallet.
C10_WalletChangesOnlyAtReconcile ==
    [][wallet' # wallet => last'.op = "get_order_and_update_wallet"]_vars

\* buy_above_bid placed a buy order and the wallet is what it was.
C10_Witness ==
    /\ last.op = "buy_above_bid" /\ last.submitted /\ last.ret = "True"
    /\ order.status = "EXECUTED"
    /\ wallet = last.pre_wallet

\* The last call was buy_above_bid on a wallet holding less of the quote
\* asset than the order's base quantity.
BuyWithoutFunds ==
    /\ last.op = "buy_above_bid"
    /\ last.pre_wallet["BTC"] < last.pre.base_quantity

\* C11 (as stated): with less of the quote asset in the wallet than the
\* order's base quantity, buy_above_bid returns False without any call to
\* the exchange during that invocation.
C11_AbortsWithoutExchangeContact ==
    BuyWithoutFunds
        => /\ last.ret = "False" /\ last.exc = "None"
           /\ last.exchange = <<>>

\* C11 (amended): with less of the quote asset in the wallet than the
\* order's base quantity, buy_above_bid returns False without raising and
\* without submitting an order; the ticker fetch that precedes the balance
\* test is the only call to the exchange during that invocation.
C11_AbortsWithoutSubmitting ==
    BuyWithoutFunds
        => /\ last.ret = "False" /\ last.exc = "None"
           /\ ~last.submitted
           /\ last.exchange = <<"get_ticker">>
           /\ order.status = "UNEXECUTED" /\ order.uuid = NoUuid

\* buy_above_bid fetched a ticker, then gave up on a wallet that holds some
\* of the quote asset, but less than the base quantity.
C11_Witness ==
    /\ BuyWithoutFunds /\ last.ticker.ok
    /\ last.pre_wallet["BTC"] > 0
    /\ last.ret = "False"

\* C12: sell_below_ask submits a sell order only when the wallet holds more
\* than 0 of the traded asset; with a balance of zero or less it returns
\* False and submits nothing.
C12_SellsOnlyPositiveBalance ==
    last.op = "sell_below_ask"
        => /\ last.submitted => last.pre_wallet[Market] > 0
           /\ last.pre_wallet[Market] <= 0 => (last.ret = "False" /\ ~last.submitted)

\* C13: after add_completed_order took the exchange's order data, the
\* order's current_quantity is the filled quantity (Quantity -
\* QuantityRemaining) and its cost is Price + CommissionPaid for a LIMIT_BUY
\* and Price - CommissionPaid for a LIMIT_SELL, on both sides.
C13_CompletedQuantityAndCost ==
    (last.op = "get_order_and_update_wallet" /\ last.fetched)
        => /\ order.current_quantity = last.data.Quantity - last.data.QuantityRemaining
           /\ order.type = "BUY" => order.cost = last.data.Price + last.data.CommissionPaid
           /\ order.type = "SELL" => order.cost = last.data.Price - last.data.CommissionPaid

\* uuid is set exactly when the status is at least EXECUTED.
UuidMatchesStatus(o) ==
    (o.uuid # NoUuid) <=> (o.status \in {"EXECUTED", "COMPLETED"})

\* The operation meets the order in the status the lifecycle gives it:
\* pricing and skipping an UNEXECUTED order, reconciling an EXECUTED one.
InLifecycleOrder(op, status) ==
    /\ op \in {"buy_above_bid", "sell_below_ask", "skip_order"} => status = "UNEXECUTED"
    /\ op = "get_order_and_update_wallet" => status = "EXECUTED"

\* C14 (as stated): in every state reached through buy_above_bid,
\* sell_below_ask, get_order_and_update_wallet and skip_order on an order
\* created UNEXECUTED, the uuid is set if and only if the status is EXECUTED
\* or COMPLETED.
C14_UuidIffExecuted ==
    UuidMatchesStatus(order)

\* C14 (amended): a call of buy_above_bid, sell_below_ask or skip_order on
\* an UNEXECUTED order, or of get_order_and_update_wallet on an EXECUTED
\* one, keeps "uuid is set if and only if the status is EXECUTED or
\* COMPLETED"; an order is created with it.
C14_UuidIffExecutedInOrder ==
    [][(UuidMatchesStatus(order) /\ InLifecycleOrder(last'.op, order.status))
          => UuidMatchesStatus(order')]_vars

\* An order submitted with its uuid was reconciled to COMPLETED.
C14_Witness ==
    /\ last.op = "get_order_and_update_wallet" /\ last.pre.status = "EXECUTED"
    /\ order.status = "COMPLETED" /\ order.uuid = Uuid

\* The status changes of the lifecycle.
StatusMoves ==
    {<<"UNEXECUTED", "EXECUTED">>, <<"EXECUTED", "COMPLETED">>,
     <<"UNEXECUTED", "SKIPPED">>}

\* C15 (as stated): over any sequence of manager operations a status only
\* moves UNEXECUTED -> EXECUTED -> COMPLETED or UNEXECUTED -> SKIPPED; no
\* operation moves it backwards or changes a COMPLETED or SKIPPED one.
C15_StatusMonotonic ==
    [][order'.status # order.status
          => <<order.status, order'.status>> \in StatusMoves]_vars

\* C15 (amended): a manager operation that meets the order in the status
\* the lifecycle gives it (buy_above_bid, sell_below_ask and skip_order an
\* UNEXECUTED order, get_order_and_update_wallet an EXECUTED one) moves the
\* status only UNEXECUTED -> EXECUTED, EXECUTED -> COMPLETED or
\* UNEXECUTED -> SKIPPED.
C15_StatusMonotonicInOrder ==
    [][(InLifecycleOrder(last'.op, order.status) /\ order'.status # order.status)
          => <<order.status, order'.status>> \in StatusMoves]_vars

\* An UNEXECUTED order was skipped.
C15_Witness ==
    /\ last.op = "skip_order" /\ last.pre.status = "UNEXECUTED"
    /\ order.status = "SKIPPED"

\* C16: reconciling against order data without a Closed timestamp (the
\* exchange reports the order still open) does not mark the order
\* COMPLETED.
C16_CompletedOnlyWhenClosed ==
    (last.op = "get_order_and_update_wallet" /\ last.fetched
        /\ last.data.Closed = NoClosed)
        => order.status # "COMPLETED"

\* How many times x is in the sequence.
Occurrences(seq, x) ==
    Len(SelectSeq(seq, LAMBDA y : y = x))

\* C17: after skip_order the order has status SKIPPED, is not in the active
\* order list and is exactly once on the completed-order queue; an order
\* with status SKIPPED is never in the active list.
C17_SkippedLeavesActiveList ==
    /\ last.op = "skip_order"
          => /\ order.status = "SKIPPED"
             /\ ~Active
             /\ Occurrences(out_queue, ThisOrder) = 1
    /\ order.status = "SKIPPED" => ~Active

\* skip_order took the order out of a list that still holds another one.
C17_Witness ==
    /\ last.op = "skip_order" /\ last.ret = "None"
    /\ order_list = <<OtherOrder>>
    /\ out_queue = <<ThisOrder>>

\* Identifiers strictly decrease from the first entry on.
StrictlyNewestFirst(entries) ==
    \A i \in 1..Len(entries) : \A j \in (i + 1)..Len(entries) :
        entries[i].Id > entries[j].Id

\* C18: in every state of the market history loop, fed pages that are the
\* newest entries of a tape whose identifiers increase, the working list
\* has no identifier twice and is ordered strictly newest first.
C18_WindowStrictlyNewestFirst ==
    StrictlyNewestFirst(working_list)

\* The id held was not in the page, and the whole page went in front of the
\* working list.
C18_Witness ==
    /\ apc = "crashed" /\ market_history.ok
    /\ working_list = market_history.result \o held
    /\ held # <<>>

\* C19: merging the page that was merged just before, any number of times
\* in a row, adds no entry to the working list.
C19_RemergeAddsNothing ==
    [][repolls' > repolls => working_list' = working_list]_vars

\* The same page was merged MaxRepolls more times into a working list that
\* holds more than the page.
C19_Witness ==
    /\ repolls = MaxRepolls
    /\ market_history.ok
    /\ working_list[1] = market_history.result[1]
    /\ Len(working_list) > Len(market_history.result)

\* C20 (as stated): the merge looks up, in the page, the identifier of the
\* oldest entry held; when that is found at index i the new working list is
\* the page's entries before i followed by the old working list.
C20_MergeAnchorsOnOldest ==
    apc = "merged"
        => LET i == IndexOf(Ids(market_history.result), held[Len(held)].Id)
           IN  i # NotFound
                  => working_list = UpTo(market_history.result, i) \o held

\* C20 (amended): the merge looks up, in the page, the identifier of the
\* newest entry held (the first of the working list); when that is found at
\* index i the new working list is the page's entries before i, in page
\* order, followed by the old working list.
C20_MergeAnchorsOnNewest ==
    apc = "merged"
        => LET i == IndexOf(Ids(market_history.result), held[1].Id)
           IN  /\ i # NotFound /\ index = i
               /\ working_list = UpTo(market_history.result, i) \o held

\* A merge put new entries in front of a working list of several entries.
C20_Witness ==
    /\ apc = "merged" /\ index >= 1
    /\ Len(held) >= 2
    /\ Len(working_list) = Len(held) + index

(***************************************************************************)
(* The poll cycle's branches (C21..C23).                                   *)
(***************************************************************************)
\* C21: when the id of working_list[0] is not in the fetched page, the whole
\* page is put in front of the working list and the program does not end:
\* the cycle goes on to its insert and the next poll.
C21_GapIsNotFatal ==
    [][apc = "gap"
          => /\ working_list' = market_history.result \o working_list
             /\ apc' = "insert"
             /\ aerr' = NoException]_vars

\* The entries of a list whose timestamps t satisfy lo <= t < hi.
Between(entries, lo, hi) ==
    SelectSeq(entries, LAMBDA x : lo <= x.TimeStamp.at /\ x.TimeStamp.at < hi)

\* C22: a cycle in which the newest held entry is more than interval after
\* current_datetime computes one summary for the interval that starts at
\* current_datetime, leaves no entry of that interval in the working list,
\* moves current_datetime on by exactly interval and sets the stale counter
\* to 0.
C22_BoundaryEmission ==
    [][(apc = "merged" /\ branch' = "emit")
          => /\ apc' = "insert"
             /\ metrics'.bound /\ metrics'.time = current_datetime.at
             /\ Between(working_list', current_datetime.at,
                        current_datetime.at + interval) = <<>>
             /\ current_datetime' = Datetime(current_datetime.at + interval)
             /\ constant' = 0]_vars

Emitted(s) ==
    \E i \in 1..Len(db) : db[i][1] = <<"time", {s}>>

\* C26: on a dead market the loop keeps running and every interval start it
\* reaches is eventually followed by a row for that interval in the
\* database.
C26_DeadMarketKeepsEmitting ==
    \A s \in Stamps : (current_datetime.at = s) ~> Emitted(s)

Quantities(data) ==
    [i \in 1..Len(data) |-> data[i].Quantity]
PriceTimesQuantity(data) ==
    [i \in 1..Len(data) |-> data[i].Price * data[i].Quantity]
Prices(data) ==
    [i \in 1..Len(data) |-> data[i].Price]
Buys(data) ==
    Len(SelectSeq(data, LAMBDA x : x.OrderType = "BUY"))

\* C28: for a non-empty list of entries calculate_metrics returns as volume
\* the sum of the entries' quantities, as buy count the number of BUY
\* entries, as sell count the number of the others, as price the mean of
\* the prices and as weighted price sum(price * quantity) / sum(quantity);
\* the entries (100, 1, BUY), (102, 2, SELL), (98, 1, BUY) give volume 4,
\* counts 2 and 1, price 100.00 and weighted price 100.50.
C28_MetricsOfQuantities ==
    (apc = "returned" /\ summarised.data # <<>>)
        => /\ metrics.volume = Sum(Quantities(summarised.data))
           /\ metrics.buy_order = Buys(summarised.data)
           /\ metrics.sell_order = Len(summarised.data) - Buys(summarised.data)
           /\ metrics.price = RoundHalfEven(Sum(Prices(summarised.data)),
                                            Len(summarised.data))
           /\ metrics.price_volume_weighted =
                  RoundHalfEven(Sum(PriceTimesQuantity(summarised.data)),
                                Sum(Quantities(summarised.data)))
           /\ summarised.data = ExampleEntries
                  => /\ metrics.volume = 4
                     /\ metrics.buy_order = 2 /\ metrics.sell_order = 1
                     /\ metrics.price = 10000
                     /\ metrics.price_volume_weighted = 10050

Phase(c) ==
    CASE c.call = "submit" -> 1
      [] c.call = "poll" -> 2
      [] c.call = "cancel" -> 3
      [] OTHER -> 0

\* C31: within one invocation of buy_or_else or sell_or_else no submission
\* follows a poll or a cancel and no poll follows a cancel; every poll comes
\* after a successful submission and the sleep(3) that follows it, every
\* cancel after a successful poll; and no submission follows a successful
\* one, so that at most one submission succeeds.
C31_CallsInOrder ==
    /\ \A i \in 1..Len(calls) : \A j \in (i + 1)..Len(calls) :
          (Phase(calls[i]) > 0 /\ Phase(calls[j]) > 0)
             => Phase(calls[i]) <= Phase(calls[j])
    /\ \A j \in 1..Len(calls) :
          calls[j].call = "poll"
             => \E i \in 1..(j - 2) :
                   /\ calls[i].call = "submit" /\ calls[i].ok
                   /\ calls[i + 1] = Sleep(3)
    /\ \A j \in 1..Len(calls) :
          calls[j].call = "cancel"
             => \E i \in 1..(j - 1) : calls[i].call = "poll" /\ calls[i].ok
    /\ \A i \in 1..Len(calls) : \A j \in (i + 1)..Len(calls) :
          (calls[i].call = "submit" /\ calls[i].ok) => calls[j].call # "submit"
    /\ Oks("submit") <= 1

\* buy_or_else went through all three loops, the first two with a failed
\* call before the successful one.
C31_Witness ==
    /\ side = "BUY"
    /\ Fails("submit") >= 1 /\ Oks("submit") = 1
    /\ Fails("poll") >= 1 /\ Oks("poll") = 1
    /\ Count("cancel") >= 1

\* The order data of the poll that succeeded.
PolledData ==
    LET i == CHOOSE k \in 1..Len(calls) : calls[k].call = "poll" /\ calls[k].ok
    IN  calls[i].data

\* C32: a response returned with success True means that a submission and
\* a poll succeeded, for buy_or_else also that the poll reported nothing
\* remaining or a cancel succeeded, and its result is the order data of the
\* successful poll.
C32_SuccessMeansConfirmed ==
    (pc = "done" /\ outcome = "returned" /\ response.success)
        => /\ Oks("submit") = 1
           /\ Oks("poll") = 1
           /\ side = "BUY"
                 => PolledData.QuantityRemaining = 0 \/ Oks("cancel") = 1
           /\ response.result = PolledData

\* buy_or_else returned success after cancelling a remainder.
C32_Witness ==
    /\ pc = "done" /\ outcome = "returned" /\ response.success
    /\ side = "BUY" /\ Oks("cancel") = 1
    /\ response.result.QuantityRemaining > 0

C35_FailedFetchIsNotFatal ==
    [][(apc = "fetch" /\ apc' # "fetch" /\ ~market_history'.ok)
          => /\ working_list' = working_list
             /\ current_datetime' = current_datetime
             /\ constant' = constant
             /\ apc' # "crashed" /\ aerr' = NoException]_vars

(***************************************************************************)
(* What a failed call leaves of the order (C36, C37).                      *)
(***************************************************************************)
\* C36: when get_order fails inside get_order_and_update_wallet (its result
\* is None), the call changes neither the order's status, current
\* quantity, actual price and cost nor the wallet.
C36_FailedFetchChangesNothing ==
    (last.op = "get_order_and_update_wallet" /\ ~last.fetched)
        => /\ order.status = last.pre.status
           /\ order.current_quantity = last.pre.current_quantity
           /\ order.actual_price = last.pre.actual_price
           /\ order.cost = last.pre.cost
           /\ wallet = last.pre_wallet

\* buy_above_bid or sell_below_ask returned False.
ReturnedFalse ==
    /\ last.op \in {"buy_above_bid", "sell_below_ask"}
    /\ last.ret = "False"

\* C37 (as stated): when buy_above_bid or sell_below_ask returns False,
\* every field of the order is as it was before the call.
C37_FalseLeavesOrder ==
    ReturnedFalse => order = last.pre

\* C37 (amended): when buy_above_bid or sell_below_ask returns False, every
\* field of the order other than target_price is as it was before the call;
\* target_price too when the price was unavailable, and otherwise it is the
\* price computed from the ticker.
C37_FalseLeavesOrderButTargetPrice ==
    ReturnedFalse
        => /\ order = [last.pre EXCEPT !.target_price = order.target_price]
           /\ ~last.ticker.ok => order = last.pre
           /\ last.ticker.ok
                 => order.target_price =
                       IF last.op = "buy_above_bid"
                       THEN BuyPrice(last.ticker.Bid, last.ticker.Ask, last.percent)
                       ELSE SellPrice(last.ticker.Bid, last.ticker.Ask, last.percent)

\* A submission failed after the order had been given a new target price.
C37_Witness ==
    /\ ReturnedFalse /\ last.submitted
    /\ order.target_price # last.pre.target_price
    /\ order.status = "UNEXECUTED" /\ order.uuid = NoUuid

(***************************************************************************)
(* The row inserted for a summary (C38).                                   *)
(***************************************************************************)
\* The value a row has under a key.
Field(row, key) ==
    LET i == CHOOSE k \in 1..Len(row) : row[k][1] = key
    IN  row[i][2]

\* C38: the row format_bittrex_entry makes of a summary carries the
\* summary's time, price, weighted price, volume, buy count and sell
\* count: none of them is missing from the row.
C38_RowCarriesSummary ==
    apc = "formatted"
        => LET row == db[Len(db)]
           IN  /\ Field(row, "time") = {metrics.time}
               /\ Field(row, "price") = {metrics.price}
               /\ Field(row, "wprice") = {metrics.price_volume_weighted}
               /\ Field(row, "basevolume") = {metrics.volume}
               /\ Field(row, "buyorder") = {metrics.buy_order}
               /\ Field(row, "sellorder") = {metrics.sell_order}

====
